---- MODULE Spec2Model ----
(***************************************************************************)
(* Model of GeneSequencing.py: Needleman-Wunsch edit distance with an      *)
(* unrestricted and a banded cost-matrix builder, the two traceback        *)
(* reconstructors, and the align facade that stores the mode and the       *)
(* length cap on the instance.                                             *)
(*                                                                         *)
(* Python strings are modelled as sequences of one-character strings,      *)
(* Python lists as sequences (index k of Python is index k+1 here), and    *)
(* Python's negative indexing is modelled by PyOk / PyAt.                  *)
(***************************************************************************)
EXTENDS Integers, Sequences, FiniteSets, TLC

\* ------------------------------------------------------------------ bounds
MaxLen1 == 5
MaxLen2 == 4
MaxAlign == 5

\* --------------------------------------------------------- program constants
MAXINDELS == 3
MATCH == -3
INDEL == 5
SUB == 1
\* math.inf: larger than every finite cost of the model, absorbing under +
inf == 1000000
\* the slice bound of the returned strings ([:100])
DisplayLen == 100

Alphabet == {"A", "T"}
Gap == "-"
NoAlignment == <<"N","o"," ","A","l","i","g","n","m","e","n","t"," ",
                 "P","o","s","s","i","b","l","e">>

\* ------------------------------------------------------------ Python helpers
Min2(a, b) == IF a <= b THEN a ELSE b
Min3(a, b, c) == Min2(a, Min2(b, c))
Abs(x) == IF x < 0 THEN -x ELSE x

\* x + y on Python numbers, where math.inf absorbs
Plus(x, y) == IF x = inf \/ y = inf THEN inf ELSE x + y

\* s[:n] for n >= 0
Prefix(s, n) == SubSeq(s, 1, Min2(Len(s), n))

\* s[k] is defined (no IndexError) for a list or string of length n
PyOk(n, k) == -n <= k /\ k < n

\* s[k] with Python's negative indexing; only used where PyOk(Len(s), k)
PyAt(s, k) == IF k >= 0 THEN s[k + 1] ELSE s[Len(s) + k + 1]

\* P[i][j] of a list of lists, Python indices
PyOk2(M, i, j) == PyOk(Len(M), i) /\ PyOk(Len(PyAt(M, i)), j)
PyAt2(M, i, j) == PyAt(PyAt(M, i), j)

\* ------------------------------------------------------------------- diff
\* mutant: the comparison inverted
diffInverted(i, j) == IF i # j THEN MATCH ELSE SUB

diff(i, j) == IF i = j THEN MATCH ELSE SUB

\* ------------------------------------------------ getEditDistanceUnrestricted
\* the tag appended to P[i] for the cost e and its three candidates
\* mutant: "up" tested before "left"
UnrestrictedTagUpFirst(e, left, up) ==
    IF e = up THEN 2 ELSE IF e = left THEN 1 ELSE 0

UnrestrictedTag(e, left, up) ==
    IF e = left THEN 1 ELSE IF e = up THEN 2 ELSE 0

\* row i (i >= 1) of E and P, filled for columns 1 .. len2-1; row holds the
\* columns 0 .. j-1 already appended
RECURSIVE UnrestrictedRow(_, _, _, _, _, _, _)
UnrestrictedRow(seq1, seq2, len2, i, Eprev, row, j) ==
    IF j >= len2 THEN row
    ELSE LET dg == diff(PyAt(seq1, i - 1), PyAt(seq2, j - 1)) + PyAt(Eprev, j - 1)
             lf == INDEL + PyAt(row.E, j - 1)
             up == INDEL + PyAt(Eprev, j)
             e  == Min3(dg, lf, up)
         IN  UnrestrictedRow(seq1, seq2, len2, i, Eprev,
                 [E |-> Append(row.E, e),
                  P |-> Append(row.P, UnrestrictedTag(e, lf, up))], j + 1)

\* the first column of every row: E[i] = [5 * i], P[i] = [0]
UnrestrictedColumn0(i) == [E |-> <<5 * i>>, P |-> <<0>>]

\* row 0 after the second loop: E[0][j] = 5 * j, P[0][j] = 1
UnrestrictedRow0(len2) ==
    [E |-> [j \in 1..len2 |-> 5 * (j - 1)],
     P |-> [j \in 1..len2 |-> IF j = 1 THEN 0 ELSE 1]]

RECURSIVE UnrestrictedRows(_, _, _, _, _, _)
UnrestrictedRows(seq1, seq2, len1, len2, EP, i) ==
    IF i >= len1 THEN EP
    ELSE LET r == UnrestrictedRow(seq1, seq2, len2, i, PyAt(EP.E, i - 1),
                                  UnrestrictedColumn0(i), 1)
         IN  UnrestrictedRows(seq1, seq2, len1, len2,
                 [E |-> Append(EP.E, r.E), P |-> Append(EP.P, r.P)], i + 1)

\* max1 and max2 are the values of self.MaxCharactersToAlign read at the
\* lines that compute len1 and len2
getEditDistanceUnrestricted(seq1, seq2, max1, max2) ==
    LET len1 == Min2(Len(seq1), max1) + 1
        len2 == Min2(Len(seq2), max2) + 1
        r0   == UnrestrictedRow0(len2)
        EP   == UnrestrictedRows(seq1, seq2, len1, len2,
                                 [E |-> <<r0.E>>, P |-> <<r0.P>>], 1)
    IN  [score |-> PyAt2(EP.E, len1 - 1, len2 - 1), P |-> EP.P, E |-> EP.E,
         err |-> FALSE]

\* ------------------------------------------------------ getEditDistanceBanded
BandWidth == 2 * MAXINDELS + 1

\* mutant: the "up" neighbour read at the same offset of the row above, as in
\* the full table, without the band's shift
BandedCellNoShift(s1, s2, i, j, Eprev, Erow) ==
    LET dg == Plus(diff(PyAt(s1, i - 1), PyAt(s2, i + j - MAXINDELS - 1)),
                   PyAt(Eprev, j))
    IN  IF j = BandWidth - 1
        THEN LET lf == Plus(INDEL, PyAt(Erow, j - 1))
                 e  == Min2(dg, lf)
             IN  [e |-> e, p |-> IF e = lf THEN 1 ELSE 0]
        ELSE IF j = 0
        THEN LET up == Plus(INDEL, PyAt(Eprev, j))
                 e  == Min2(dg, up)
             IN  [e |-> e, p |-> IF e = up THEN 2 ELSE 0]
        ELSE LET lf == Plus(INDEL, PyAt(Erow, j - 1))
                 up == Plus(INDEL, PyAt(Eprev, j))
                 e  == Min3(dg, lf, up)
             IN  [e |-> e, p |-> IF e = lf THEN 1 ELSE IF e = up THEN 2 ELSE 0]

\* the cost and the tag of a valid cell of row i >= 1, band offset j
BandedCell(s1, s2, i, j, Eprev, Erow) ==
    LET dg == Plus(diff(PyAt(s1, i - 1), PyAt(s2, i + j - MAXINDELS - 1)),
                   PyAt(Eprev, j))
    IN  IF j = BandWidth - 1
        THEN LET lf == Plus(INDEL, PyAt(Erow, j - 1))
                 e  == Min2(dg, lf)
             IN  [e |-> e, p |-> IF e = lf THEN 1 ELSE 0]
        ELSE IF j = 0
        THEN LET up == Plus(INDEL, PyAt(Eprev, j + 1))
                 e  == Min2(dg, up)
             IN  [e |-> e, p |-> IF e = up THEN 2 ELSE 0]
        ELSE LET lf == Plus(INDEL, PyAt(Erow, j - 1))
                 up == Plus(INDEL, PyAt(Eprev, j + 1))
                 e  == Min3(dg, lf, up)
             IN  [e |-> e, p |-> IF e = lf THEN 1 ELSE IF e = up THEN 2 ELSE 0]

\* mutant: the cells of real column len(seq2) taken for outside the sequence
RECURSIVE BandedRowStrict(_, _, _, _, _, _)
BandedRowStrict(s1, s2, i, Eprev, row, j) ==
    IF j >= BandWidth THEN row
    ELSE LET c == i + j - MAXINDELS
             cell == IF Len(s2) > c /\ c >= 0
                     THEN IF i = 0
                          THEN [e |-> 5 * (j - MAXINDELS), p |-> 1]
                          ELSE BandedCell(s1, s2, i, j, Eprev, row.E)
                     ELSE [e |-> inf, p |-> inf]
         IN  BandedRowStrict(s1, s2, i, Eprev,
                 [E |-> Append(row.E, cell.e), P |-> Append(row.P, cell.p)], j + 1)

\* row i of the band; row holds the offsets 0 .. j-1 already appended
RECURSIVE BandedRow(_, _, _, _, _, _)
BandedRow(s1, s2, i, Eprev, row, j) ==
    IF j >= BandWidth THEN row
    ELSE LET c == i + j - MAXINDELS
             cell == IF Len(s2) >= c /\ c >= 0
                     THEN IF i = 0
                          THEN [e |-> 5 * (j - MAXINDELS), p |-> 1]
                          ELSE BandedCell(s1, s2, i, j, Eprev, row.E)
                     ELSE [e |-> inf, p |-> inf]
         IN  BandedRow(s1, s2, i, Eprev,
                 [E |-> Append(row.E, cell.e), P |-> Append(row.P, cell.p)], j + 1)

RECURSIVE BandedRows(_, _, _, _, _)
BandedRows(s1, s2, len1, EP, i) ==
    IF i >= len1 THEN EP
    ELSE LET r == BandedRow(s1, s2, i,
                            IF i = 0 THEN <<>> ELSE PyAt(EP.E, i - 1),
                            [E |-> <<>>, P |-> <<>>], 0)
         IN  BandedRows(s1, s2, len1,
                 [E |-> Append(EP.E, r.E), P |-> Append(EP.P, r.P)], i + 1)

\* the leftward scan of the last row: the offset of the first finite cost
\* met from ret_j downwards, or the first offset that is no index of the row
\* (where E[len1 - 1][ret_j] raises IndexError)
RECURSIVE BandedScan(_, _)
BandedScan(row, ret_j) ==
    IF ~PyOk(Len(row), ret_j) THEN ret_j
    ELSE IF PyAt(row, ret_j) # inf THEN ret_j
    ELSE BandedScan(row, ret_j - 1)

\* mutant: the length difference compared with the band's width, not with
\* MAXINDELS
getEditDistanceBandedWidthGuard(seq1, seq2, max1, max2) ==
    LET s1   == Prefix(seq1, max1)
        s2   == Prefix(seq2, max2)
        len1 == Len(s1) + 1
    IN  IF Abs(Len(s1) - Len(s2)) > BandWidth
        THEN [score |-> inf, P |-> <<>>, E |-> <<>>, err |-> FALSE]
        ELSE LET EP    == BandedRows(s1, s2, len1, [E |-> <<>>, P |-> <<>>], 0)
                 ret_j == BandedScan(PyAt(EP.E, len1 - 1), BandWidth - 1)
             IN  IF PyOk(BandWidth, ret_j)
                 THEN [score |-> PyAt2(EP.E, len1 - 1, ret_j), P |-> EP.P,
                       E |-> EP.E, err |-> FALSE]
                 ELSE [score |-> inf, P |-> EP.P, E |-> EP.E, err |-> TRUE]

\* max1 and max2 are the values of self.MaxCharactersToAlign read by the
\* two slices; err records an IndexError raised by the scan
getEditDistanceBanded(seq1, seq2, max1, max2) ==
    LET s1   == Prefix(seq1, max1)
        s2   == Prefix(seq2, max2)
        len1 == Len(s1) + 1
    IN  IF Abs(Len(s1) - Len(s2)) > MAXINDELS
        THEN [score |-> inf, P |-> <<>>, E |-> <<>>, err |-> FALSE]
        ELSE LET EP    == BandedRows(s1, s2, len1, [E |-> <<>>, P |-> <<>>], 0)
                 ret_j == BandedScan(PyAt(EP.E, len1 - 1), BandWidth - 1)
             IN  IF PyOk(BandWidth, ret_j)
                 THEN [score |-> PyAt2(EP.E, len1 - 1, ret_j), P |-> EP.P,
                       E |-> EP.E, err |-> FALSE]
                 ELSE [score |-> inf, P |-> EP.P, E |-> EP.E, err |-> TRUE]

\* ------------------------------------------------------------ getEditDistance
getEditDistance(selfBanded, seq1, seq2, max1, max2) ==
    IF selfBanded THEN getEditDistanceBanded(seq1, seq2, max1, max2)
    ELSE getEditDistanceUnrestricted(seq1, seq2, max1, max2)

\* ------------------------------------------------------- alignedUnrestricted
\* the walk's local variables; err records an IndexError raised by the step
Walk(i, j, a1, a2) == [i |-> i, j |-> j, seq1_aligned |-> a1, seq2_aligned |-> a2,
                       err |-> FALSE]
Raise(w) == [w EXCEPT !.err = TRUE]

alignedUnrestrictedStart(P) ==
    LET i == Len(P) - 1
    IN  Walk(i, Len(PyAt(P, i)) - 1, <<>>, <<>>)

alignedUnrestrictedLoop(w) == w.i > 0 \/ w.j > 0

\* one iteration of the while loop
alignedUnrestrictedStep(seq1, seq2, P, w) ==
    IF ~PyOk2(P, w.i, w.j) THEN Raise(w)
    ELSE IF PyAt2(P, w.i, w.j) = 2
    THEN IF ~PyOk(Len(seq1), w.i - 1) THEN Raise(w)
         ELSE Walk(w.i - 1, w.j,
                   <<PyAt(seq1, w.i - 1)>> \o w.seq1_aligned,
                   <<Gap>> \o w.seq2_aligned)
    ELSE IF PyAt2(P, w.i, w.j) = 0
    THEN IF ~PyOk(Len(seq1), w.i - 1) \/ ~PyOk(Len(seq2), w.j - 1) THEN Raise(w)
         ELSE Walk(w.i - 1, w.j - 1,
                   <<PyAt(seq1, w.i - 1)>> \o w.seq1_aligned,
                   <<PyAt(seq2, w.j - 1)>> \o w.seq2_aligned)
    ELSE IF ~PyOk(Len(seq2), w.j - 1) THEN Raise(w)
         ELSE Walk(w.i, w.j - 1,
                   <<Gap>> \o w.seq1_aligned,
                   <<PyAt(seq2, w.j - 1)>> \o w.seq2_aligned)

\* ------------------------------------------------------------- alignedBanded
\* while P[i][j] == math.inf: j -= 1
RECURSIVE alignedBandedScan(_, _)
alignedBandedScan(row, j) ==
    IF ~PyOk(Len(row), j) THEN j
    ELSE IF PyAt(row, j) # inf THEN j
    ELSE alignedBandedScan(row, j - 1)

alignedBandedStart(P) ==
    LET i == Len(P) - 1
        j == alignedBandedScan(PyAt(P, i), Len(PyAt(P, i)) - 1)
    IN  IF PyOk(Len(PyAt(P, i)), j) THEN Walk(i, j, <<>>, <<>>)
        ELSE Raise(Walk(i, j, <<>>, <<>>))

alignedBandedLoop(w) == ~(w.i = 0 /\ w.j = MAXINDELS)

\* mutant: the "up" move without j += 1
alignedBandedStepNoShift(seq1, seq2, P, w) ==
    IF ~PyOk2(P, w.i, w.j) THEN Raise(w)
    ELSE IF PyAt2(P, w.i, w.j) = 2
    THEN IF ~PyOk(Len(seq1), w.i - 1) THEN Raise(w)
         ELSE Walk(w.i - 1, w.j,
                   <<PyAt(seq1, w.i - 1)>> \o w.seq1_aligned,
                   <<Gap>> \o w.seq2_aligned)
    ELSE IF PyAt2(P, w.i, w.j) = 0
    THEN IF ~PyOk(Len(seq1), w.i - 1)
            \/ ~PyOk(Len(seq2), w.i + w.j - MAXINDELS - 1) THEN Raise(w)
         ELSE Walk(w.i - 1, w.j,
                   <<PyAt(seq1, w.i - 1)>> \o w.seq1_aligned,
                   <<PyAt(seq2, w.i + w.j - MAXINDELS - 1)>> \o w.seq2_aligned)
    ELSE IF ~PyOk(Len(seq2), w.i + w.j - MAXINDELS - 1) THEN Raise(w)
         ELSE Walk(w.i, w.j - 1,
                   <<Gap>> \o w.seq1_aligned,
                   <<PyAt(seq2, w.i + w.j - MAXINDELS - 1)>> \o w.seq2_aligned)

\* one iteration of the while loop
alignedBandedStep(seq1, seq2, P, w) ==
    IF ~PyOk2(P, w.i, w.j) THEN Raise(w)
    ELSE IF PyAt2(P, w.i, w.j) = 2
    THEN IF ~PyOk(Len(seq1), w.i - 1) THEN Raise(w)
         ELSE Walk(w.i - 1, w.j + 1,
                   <<PyAt(seq1, w.i - 1)>> \o w.seq1_aligned,
                   <<Gap>> \o w.seq2_aligned)
    ELSE IF PyAt2(P, w.i, w.j) = 0
    THEN IF ~PyOk(Len(seq1), w.i - 1)
            \/ ~PyOk(Len(seq2), w.i + w.j - MAXINDELS - 1) THEN Raise(w)
         ELSE Walk(w.i - 1, w.j,
                   <<PyAt(seq1, w.i - 1)>> \o w.seq1_aligned,
                   <<PyAt(seq2, w.i + w.j - MAXINDELS - 1)>> \o w.seq2_aligned)
    ELSE IF ~PyOk(Len(seq2), w.i + w.j - MAXINDELS - 1) THEN Raise(w)
         ELSE Walk(w.i, w.j - 1,
                   <<Gap>> \o w.seq1_aligned,
                   <<PyAt(seq2, w.i + w.j - MAXINDELS - 1)>> \o w.seq2_aligned)

\* ------------------------------------------------------------------- aligned
\* the dispatch of aligned on self.banded, for a non-empty P
alignedStart(selfBanded, P) ==
    IF selfBanded THEN alignedBandedStart(P) ELSE alignedUnrestrictedStart(P)
alignedLoop(selfBanded, w) ==
    IF selfBanded THEN alignedBandedLoop(w) ELSE alignedUnrestrictedLoop(w)
alignedStep(selfBanded, seq1, seq2, P, w) ==
    IF selfBanded THEN alignedBandedStep(seq1, seq2, P, w)
    ELSE alignedUnrestrictedStep(seq1, seq2, P, w)

\* ------------------------------------------------------------- the inputs
\* the non-empty strings over Alphabet of length at most n
Strings(n) == UNION {[1..k -> Alphabet] : k \in 1..n}

Sequences1 == Strings(MaxLen1)
Sequences2 == Strings(MaxLen2)
AlignLengths == 1..MaxAlign

\* ------------------------------------------------- one instance, one caller
VARIABLES
    pc,             \* where the call of align stands
    seq1, seq2,     \* the arguments of align
    banded, align_length,
    self,           \* the instance attributes: a function on the names set so far
    score, E, P,    \* what getEditDistance returned (E is the builder's cost table)
    walk,           \* the locals of the running traceback
    alignment1, alignment2,     \* what aligned returned
    frames          \* the frames of calls of align that run concurrently

vars == <<pc, seq1, seq2, banded, align_length, self, score, E, P, walk,
          alignment1, alignment2, frames>>

NoWalk == Walk(0, 0, <<>>, <<>>)

\* GeneSequencing(): __init__ sets no attribute
Init ==
    /\ pc = "idle"
    /\ seq1 = <<>> /\ seq2 = <<>>
    /\ banded = FALSE /\ align_length = 1
    /\ self = <<>>
    /\ score = 0 /\ E = <<>> /\ P = <<>>
    /\ walk = NoWalk
    /\ alignment1 = <<>> /\ alignment2 = <<>>
    /\ frames = <<>>

\* self.banded = banded
StoreBanded(obj, b) == ("banded" :> b) @@ obj

\* mutant: the cap stored one too large
StoreMaxCharactersToAlignPlusOne(obj, n) == ("MaxCharactersToAlign" :> (n + 1)) @@ obj

\* self.MaxCharactersToAlign = align_length
StoreMaxCharactersToAlign(obj, n) == ("MaxCharactersToAlign" :> n) @@ obj

\* align is entered and stores the mode and the cap on the instance

Call(s1, s2, b, n) ==
    /\ pc = "idle"
    /\ pc' = "called"
    /\ seq1' = s1 /\ seq2' = s2 /\ banded' = b /\ align_length' = n
    /\ self' = StoreMaxCharactersToAlign(StoreBanded(self, b), n)
    /\ score' = 0 /\ E' = <<>> /\ P' = <<>>
    /\ walk' = NoWalk
    /\ alignment1' = <<>> /\ alignment2' = <<>>
    /\ UNCHANGED frames

\* score, P = self.getEditDistance(seq1, seq2)
Build ==
    /\ pc = "called"
    /\ LET r == getEditDistance(self.banded, seq1, seq2,
                                self.MaxCharactersToAlign, self.MaxCharactersToAlign)
       IN  /\ score' = r.score /\ E' = r.E /\ P' = r.P
           /\ pc' = IF r.err THEN "error" ELSE "built"
    /\ UNCHANGED <<seq1, seq2, banded, align_length, self, walk, alignment1, alignment2,
                   frames>>

\* aligned: no back-pointers, no alignment
AlignedNone ==
    /\ pc = "built" /\ P = <<>>
    /\ alignment1' = NoAlignment /\ alignment2' = NoAlignment
    /\ pc' = "done"
    /\ UNCHANGED <<seq1, seq2, banded, align_length, self, score, E, P, walk,
                   frames>>

\* aligned: the traceback starts at the terminal cell
AlignedStart ==
    /\ pc = "built" /\ P # <<>>
    /\ walk' = alignedStart(self.banded, P)
    /\ pc' = IF walk'.err THEN "error" ELSE "trace"
    /\ UNCHANGED <<seq1, seq2, banded, align_length, self, score, E, P,
                   alignment1, alignment2, frames>>

\* one iteration of the traceback loop
TraceStep ==
    /\ pc = "trace" /\ alignedLoop(self.banded, walk)
    /\ walk' = alignedStep(self.banded, seq1, seq2, P, walk)
    /\ pc' = IF walk'.err THEN "error" ELSE "trace"
    /\ UNCHANGED <<seq1, seq2, banded, align_length, self, score, E, P,
                   alignment1, alignment2, frames>>

\* the loop ends; aligned returns the two slices and align returns
TraceReturn ==
    /\ pc = "trace" /\ ~alignedLoop(self.banded, walk)
    /\ alignment1' = Prefix(walk.seq1_aligned, DisplayLen)
    /\ alignment2' = Prefix(walk.seq2_aligned, DisplayLen)
    /\ pc' = "done"
    /\ UNCHANGED <<seq1, seq2, banded, align_length, self, score, E, P, walk,
                   frames>>

\* the caller has the result (or the exception); the frame of align is gone
\* and the instance keeps its attributes
Finish ==
    /\ pc \in {"done", "error"}
    /\ pc' = "idle"
    /\ seq1' = <<>> /\ seq2' = <<>> /\ banded' = FALSE /\ align_length' = 1
    /\ score' = 0 /\ E' = <<>> /\ P' = <<>>
    /\ walk' = NoWalk
    /\ alignment1' = <<>> /\ alignment2' = <<>>
    /\ UNCHANGED <<self, frames>>

\* a caller invokes align with any arguments of the bounded input space
Invoke ==
    /\ pc = "idle"
    /\ \E s1 \in Sequences1, s2 \in Sequences2, b \in BOOLEAN, n \in AlignLengths :
          Call(s1, s2, b, n)

Next ==
    \/ Invoke
    \/ Build
    \/ AlignedNone
    \/ AlignedStart
    \/ TraceStep
    \/ TraceReturn
    \/ Finish

Spec == Init /\ [][Next]_vars

\* ---------------------------------------------- the reference: alignments
\* A global alignment of a[1..n] with b[1..m] is a sequence of columns, read
\* from the start: "pair" consumes one character of each, "gap1" a character
\* of b against a gap in a, "gap2" a character of a against a gap in b.
RECURSIVE Alignments(_, _)
Alignments(n, m) ==
    IF n = 0 /\ m = 0 THEN {<<>>}
    ELSE (IF n > 0 /\ m > 0
          THEN {Append(al, "pair") : al \in Alignments(n - 1, m - 1)} ELSE {})
         \cup (IF m > 0 THEN {Append(al, "gap1") : al \in Alignments(n, m - 1)} ELSE {})
         \cup (IF n > 0 THEN {Append(al, "gap2") : al \in Alignments(n - 1, m)} ELSE {})

\* the number of characters of a (of b) that the first k columns consume
RECURSIVE Consumed1(_, _)
Consumed1(al, k) ==
    IF k = 0 THEN 0 ELSE Consumed1(al, k - 1) + (IF al[k] = "gap1" THEN 0 ELSE 1)
RECURSIVE Consumed2(_, _)
Consumed2(al, k) ==
    IF k = 0 THEN 0 ELSE Consumed2(al, k - 1) + (IF al[k] = "gap2" THEN 0 ELSE 1)

\* -3 for a pair of equal characters, +1 for a pair of different ones, +5
\* for a gap
RECURSIVE AlignmentCost(_, _, _, _)
AlignmentCost(a, b, al, k) ==
    IF k = 0 THEN 0
    ELSE AlignmentCost(a, b, al, k - 1) +
         (IF al[k] = "pair"
          THEN (IF a[Consumed1(al, k)] = b[Consumed2(al, k)] THEN -3 ELSE 1)
          ELSE 5)

\* every cell (row, col) the alignment passes has |col - row| <= 3
InsideBand(al) ==
    \A k \in 0..Len(al) : Abs(Consumed2(al, k) - Consumed1(al, k)) <= 3

\* the truncated arguments and their lengths
Truncated1 == Prefix(seq1, align_length)
Truncated2 == Prefix(seq2, align_length)
n1 == Len(Truncated1)
n2 == Len(Truncated2)
Feasible == Abs(n1 - n2) <= MAXINDELS

\* ------------------------------------------------ the builders on their own
\* the arguments are drawn, the attributes are set, and the builder runs
OptLen == 3
BandLen == 4

InitOpt ==
    /\ pc = "called"
    /\ seq1 \in Strings(OptLen) \cup {<<>>}
    /\ seq2 \in Strings(OptLen) \cup {<<>>}
    /\ banded = FALSE
    /\ align_length \in 1..OptLen
    /\ self = StoreMaxCharactersToAlign(StoreBanded(<<>>, banded), align_length)
    /\ score = 0 /\ E = <<>> /\ P = <<>>
    /\ walk = NoWalk
    /\ alignment1 = <<>> /\ alignment2 = <<>>
    /\ frames = <<>>

SpecOpt == InitOpt /\ [][Build]_vars

InitBand ==
    /\ pc = "called"
    /\ seq1 \in Strings(BandLen)
    /\ seq2 \in Strings(BandLen)
    /\ banded = TRUE
    /\ align_length \in 1..BandLen
    /\ self = StoreMaxCharactersToAlign(StoreBanded(<<>>, banded), align_length)
    /\ score = 0 /\ E = <<>> /\ P = <<>>
    /\ walk = NoWalk
    /\ alignment1 = <<>> /\ alignment2 = <<>>
    /\ frames = <<>>

SpecBand == InitBand /\ [][Build]_vars

\* C2: the cost returned by getEditDistanceUnrestricted is the least cost of
\* a global alignment of seq1[:alignLength] with seq2[:alignLength], a pair
\* of equal characters costing -3, a pair of different characters +1 and a
\* gap +5.
C2_UnrestrictedCostIsMinimum ==
    (pc = "built" /\ ~self.banded) =>
        /\ \A al \in Alignments(n1, n2) :
              score <= AlignmentCost(Truncated1, Truncated2, al, Len(al))
        /\ \E al \in Alignments(n1, n2) :
              score = AlignmentCost(Truncated1, Truncated2, al, Len(al))

\* the builder has run on two sequences that differ, where the best
\* alignment mixes pairs and gaps
C2_Witness ==
    /\ pc = "built" /\ ~self.banded
    /\ n1 = 3 /\ n2 = 2 /\ Len(seq1) = 3
    /\ score = -1

\* C4: when the truncated lengths differ by at most 3 and some minimum-cost
\* alignment stays inside the band, the banded builder returns the cost the
\* unrestricted builder returns.
C4_BandedCostAgrees ==
    (/\ pc = "built" /\ self.banded /\ Feasible
     /\ \E al \in Alignments(n1, n2) :
           /\ InsideBand(al)
           /\ AlignmentCost(Truncated1, Truncated2, al, Len(al)) =
                 getEditDistanceUnrestricted(seq1, seq2, align_length, align_length).score)
    => score = getEditDistanceUnrestricted(seq1, seq2, align_length, align_length).score

\* the banded builder has run on sequences of length 4, where alignments
\* outside the band exist and the band's first and last columns are filled
C4_Witness ==
    /\ pc = "built" /\ self.banded /\ Feasible
    /\ n1 = 4 /\ n2 = 4
    /\ \E al \in Alignments(n1, n2) : ~InsideBand(al)
    /\ score = getEditDistanceUnrestricted(seq1, seq2, align_length, align_length).score

\* ------------------------------------------------------ claims on one call
Ungap(s) == SelectSeq(s, LAMBDA c : c # Gap)
Returned == pc = "done"
AfterBuild == pc \in {"built", "trace", "done", "error"}

\* C1: the two returned strings, with every gap marker removed, are the
\* first min(len, alignLength) characters of the two arguments, in
\* unrestricted mode and in feasible banded mode; the call does return.
C1_GaplessStringsArePrefixes ==
    /\ pc # "error"
    /\ (Returned /\ (~banded \/ Feasible)) =>
          /\ Ungap(alignment1) = Truncated1
          /\ Ungap(alignment2) = Truncated2

\* C3 as stated: banded mode returns infinite cost and the two literals
\* whenever the lengths of the sequences passed to align differ by more
\* than 3.
C3_InfeasibleByArgumentLengths ==
    (Returned /\ banded /\ Abs(Len(seq1) - Len(seq2)) > 3) =>
        /\ score = inf
        /\ alignment1 = NoAlignment /\ alignment2 = NoAlignment

\* C3 amended: banded mode returns infinite cost and the two literals
\* whenever the lengths of the two sequences truncated to alignLength differ
\* by more than 3; no traceback runs and nothing is raised.
C3_InfeasibleByTruncatedLengths ==
    (AfterBuild /\ banded /\ Abs(n1 - n2) > 3) =>
        /\ score = inf /\ P = <<>>
        /\ pc \in {"built", "done"}
        /\ Returned => alignment1 = NoAlignment /\ alignment2 = NoAlignment

\* a banded call on truncated lengths 5 and 1 has returned
C3_Witness ==
    /\ Returned /\ banded /\ n1 = 5 /\ n2 = 1
    /\ alignment1 = NoAlignment

AATT == <<"A", "A", "T", "T">>
AA == <<"A", "A">>
ExampleCall == seq1 = AATT /\ seq2 = AA /\ align_length = 4

\* C5 as stated: banded align("AATT", "AA", alignLength 4) returns cost 10
\* with "AATT" and "AA--".
C5_ExampleCostTen ==
    (Returned /\ ExampleCall /\ banded) =>
        /\ score = 10
        /\ alignment1 = AATT /\ alignment2 = <<"A", "A", "-", "-">>

\* C5 amended: align("AATT", "AA", alignLength 4) is feasible and returns
\* cost 4 with "AATT" and "AA--" in banded mode, and the same cost and
\* strings in unrestricted mode.
C5_ExampleCostFour ==
    ExampleCall =>
        /\ pc # "error"
        /\ Feasible
        /\ Returned => /\ score = 4
                       /\ alignment1 = AATT
                       /\ alignment2 = <<"A", "A", "-", "-">>

\* the banded call of the example has returned
C5_Witness ==
    Returned /\ ExampleCall /\ banded /\ score = 4 /\ Len(alignment2) = 4

\* C7: in the unrestricted P every row-0 cell with j >= 1 holds "left" (1)
\* and every column-0 cell with i >= 1 holds "up" (2).
C7_BorderTags ==
    (pc = "built" /\ ~banded) =>
        /\ \A j \in 1..n2 : PyAt2(P, 0, j) = 1
        /\ \A i \in 1..n1 : PyAt2(P, i, 0) = 2

\* C8: the traceback never leaves the matrix and stops at its origin:
\* unrestricted, row >= 0 and column >= 0 at every step and (0, 0) at the
\* end; banded, 0 <= band-offset <= 6 and a reachable back-pointer at every
\* visited cell and (0, 3) at the end; no step raises.
C8_WalkInsideAndEndsAtOrigin ==
    /\ pc # "error"
    /\ (pc = "trace" /\ ~banded) => walk.i >= 0 /\ walk.j >= 0
    /\ (pc = "trace" /\ banded) =>
          /\ walk.i >= 0 /\ walk.j >= 0 /\ walk.j <= 2 * MAXINDELS
          /\ PyAt2(P, walk.i, walk.j) # inf
    /\ (Returned /\ P # <<>> /\ ~banded) => walk.i = 0 /\ walk.j = 0
    /\ (Returned /\ P # <<>> /\ banded) => walk.i = 0 /\ walk.j = MAXINDELS

\* the moves into a cell and their costs, read from the tables the builder
\* returned: unrestricted cell (i, j), and band cell (i, j)
UDiagonal(i, j) ==
    diff(PyAt(seq1, i - 1), PyAt(seq2, j - 1)) + PyAt2(E, i - 1, j - 1)
ULeft(i, j) == INDEL + PyAt2(E, i, j - 1)
UUp(i, j) == INDEL + PyAt2(E, i - 1, j)

RealColumn(i, j) == i + j - MAXINDELS
ValidBandCell(i, j) == RealColumn(i, j) >= 0 /\ RealColumn(i, j) <= n2
BDiagonal(i, j) ==
    IF RealColumn(i, j) >= 1
    THEN Plus(diff(PyAt(Truncated1, i - 1),
                   PyAt(Truncated2, RealColumn(i, j) - 1)), PyAt2(E, i - 1, j))
    ELSE inf
BLeft(i, j) == IF j > 0 THEN Plus(INDEL, PyAt2(E, i, j - 1)) ELSE inf
BUp(i, j) == IF j < 2 * MAXINDELS THEN Plus(INDEL, PyAt2(E, i - 1, j + 1)) ELSE inf

\* left when the left move achieves the minimum, else up when the up move
\* does, else diagonal, which then achieves it
PriorityHolds(tag, e, dg, left, up) ==
    /\ e = Min3(dg, left, up)
    /\ tag = 1 <=> e = left
    /\ tag = 2 <=> (e # left /\ e = up)
    /\ tag = 0 <=> (e # left /\ e # up)
    /\ tag = 0 => e = dg

\* C9: in every interior cell the recorded back-pointer is chosen among the
\* moves achieving the cell's minimum with priority left over up over
\* diagonal; the band's first column never records left, its last column
\* never records up.
C9_TagPriority ==
    /\ (pc = "built" /\ ~banded) =>
          \A i \in 1..n1 : \A j \in 1..n2 :
              PriorityHolds(PyAt2(P, i, j), PyAt2(E, i, j),
                            UDiagonal(i, j), ULeft(i, j), UUp(i, j))
    /\ (pc = "built" /\ banded /\ Feasible) =>
          \A i \in 1..n1 : \A j \in 0..(2 * MAXINDELS) :
              ValidBandCell(i, j) =>
                  /\ PriorityHolds(PyAt2(P, i, j), PyAt2(E, i, j),
                                   BDiagonal(i, j), BLeft(i, j), BUp(i, j))
                  /\ j = 0 => PyAt2(P, i, j) # 1
                  /\ j = 2 * MAXINDELS => PyAt2(P, i, j) # 2

\* both builders have decided a tie: a cell where the left and the up move
\* both achieve the minimum
C9_Witness ==
    /\ pc = "built" /\ ~banded
    /\ \E i \in 1..n1 : \E j \in 1..n2 :
          /\ ULeft(i, j) = PyAt2(E, i, j) /\ UUp(i, j) = PyAt2(E, i, j)
          /\ PyAt2(P, i, j) = 1

\* C10: in feasible banded mode the leftward scan of the last row stops at
\* band-offset n2 - n1 + 3 >= 0, whose real column is n2; the builder's cost
\* and the traceback's start are that cell; every cell whose real column
\* lies in [0, n2] holds a finite cost.
TerminalOffset == n2 - n1 + MAXINDELS
C10_TerminalCell ==
    /\ (pc = "built" /\ banded /\ Feasible) =>
          /\ TerminalOffset >= 0
          /\ RealColumn(n1, TerminalOffset) = n2
          /\ BandedScan(PyAt(E, n1), 2 * MAXINDELS) = TerminalOffset
          /\ alignedBandedScan(PyAt(P, n1), 2 * MAXINDELS) = TerminalOffset
          /\ score = PyAt2(E, n1, TerminalOffset)
          /\ \A i \in 0..n1 : \A j \in 0..(2 * MAXINDELS) :
                ValidBandCell(i, j) => PyAt2(E, i, j) # inf
    /\ (pc = "trace" /\ banded /\ walk.seq1_aligned = <<>> /\ walk.seq2_aligned = <<>>) =>
          walk.i = n1 /\ walk.j = TerminalOffset

\* the traceback of a banded call stands on its terminal cell after the
\* scan skipped unreachable columns of the last row
C10_Witness ==
    /\ pc = "trace" /\ banded /\ walk.seq1_aligned = <<>> /\ walk.seq2_aligned = <<>>
    /\ n1 = 5 /\ n2 = 3
    /\ walk.j = 1 /\ PyAt2(E, n1, 2) = inf

\* ------------------------------------------- two callers, one instance
\* Two threads call align on the same instance.  A thread can be preempted
\* between any two reads or writes of an instance attribute; what lies
\* between them works on the thread's own locals.
ConcLen == 2
Threads == {1, 2}

\* the whole traceback loop, from the locals w on
RECURSIVE alignedRun(_, _, _, _, _)
alignedRun(selfBanded, s1, s2, Ptr, w) ==
    IF w.err \/ ~alignedLoop(selfBanded, w) THEN w
    ELSE alignedRun(selfBanded, s1, s2, Ptr, alignedStep(selfBanded, s1, s2, Ptr, w))

\* what a call hands to its caller: the returned dictionary, or the exception
Outcome(status, cost, a1, a2) ==
    [status |-> status, align_cost |-> cost, seqi_first100 |-> a1, seqj_first100 |-> a2]
Raised == Outcome("raised", 0, <<>>, <<>>)

\* aligned, reading selfBanded from the instance
aligned(selfBanded, s1, s2, cost, Ptr) ==
    IF Ptr = <<>> THEN Outcome("returned", cost, NoAlignment, NoAlignment)
    ELSE LET w == alignedRun(selfBanded, s1, s2, Ptr, alignedStart(selfBanded, Ptr))
         IN  IF w.err THEN Raised
             ELSE Outcome("returned", cost, Prefix(w.seq1_aligned, DisplayLen),
                          Prefix(w.seq2_aligned, DisplayLen))

\* align run alone on a fresh instance
align(s1, s2, b, n) ==
    LET r == getEditDistance(b, s1, s2, n, n)
    IN  IF r.err THEN Raised ELSE aligned(b, s1, s2, r.score, r.P)

Frame(s1, s2, b, n) ==
    [pc |-> "store_banded", seq1 |-> s1, seq2 |-> s2, banded |-> b, align_length |-> n,
     mode |-> FALSE, max1 |-> 0, score |-> 0, P |-> <<>>,
     out |-> Raised, disturbed |-> FALSE]

InitConc ==
    /\ pc = "idle"
    /\ seq1 = <<>> /\ seq2 = <<>>
    /\ banded = FALSE /\ align_length = 1
    /\ self = <<>>
    /\ score = 0 /\ E = <<>> /\ P = <<>>
    /\ walk = NoWalk
    /\ alignment1 = <<>> /\ alignment2 = <<>>
    /\ \E s1 \in Strings(ConcLen), s2 \in Strings(ConcLen) :
       \E b \in [Threads -> BOOLEAN], n \in [Threads -> 1..ConcLen] :
          frames = [t \in Threads |-> Frame(s1, s2, b[t], n[t])]

callerVars == <<pc, seq1, seq2, banded, align_length, score, E, P, walk,
                alignment1, alignment2>>

\* where a thread stands between its own write of an attribute and its last
\* read of it
BandedWindow == {"store_max", "read_banded", "read_max1", "read_max2", "aligned"}
MaxWindow == {"read_banded", "read_max1", "read_max2"}

\* thread t moves to f; every other thread standing in `window` is
\* disturbed when the write changed the attribute
Moved(t, f, window, changed) ==
    [u \in Threads |->
        IF u = t THEN f
        ELSE IF changed /\ frames[u].pc \in window
             THEN [frames[u] EXCEPT !.disturbed = TRUE]
             ELSE frames[u]]

\* self.banded = banded
WriteBanded(t) ==
    /\ frames[t].pc = "store_banded"
    /\ self' = StoreBanded(self, frames[t].banded)
    /\ frames' = Moved(t, [frames[t] EXCEPT !.pc = "store_max"], BandedWindow,
                       "banded" \in DOMAIN self /\ self.banded # frames[t].banded)
    /\ UNCHANGED callerVars

\* self.MaxCharactersToAlign = align_length
WriteMax(t) ==
    /\ frames[t].pc = "store_max"
    /\ self' = StoreMaxCharactersToAlign(self, frames[t].align_length)
    /\ frames' = Moved(t, [frames[t] EXCEPT !.pc = "read_banded"], MaxWindow,
                       /\ "MaxCharactersToAlign" \in DOMAIN self
                       /\ self.MaxCharactersToAlign # frames[t].align_length)
    /\ UNCHANGED callerVars

\* getEditDistance: if self.banded
ReadBanded(t) ==
    /\ frames[t].pc = "read_banded"
    /\ frames' = [frames EXCEPT ![t].mode = self.banded, ![t].pc = "read_max1"]
    /\ UNCHANGED <<self, callerVars>>

\* the builder's first read of self.MaxCharactersToAlign
ReadMax1(t) ==
    /\ frames[t].pc = "read_max1"
    /\ frames' = [frames EXCEPT ![t].max1 = self.MaxCharactersToAlign,
                                ![t].pc = "read_max2"]
    /\ UNCHANGED <<self, callerVars>>

\* the builder's second read of self.MaxCharactersToAlign and its tables
ReadMax2Build(t) ==
    /\ frames[t].pc = "read_max2"
    /\ LET f == frames[t]
           r == getEditDistance(f.mode, f.seq1, f.seq2, f.max1,
                                self.MaxCharactersToAlign)
       IN  frames' = [frames EXCEPT ![t].score = r.score, ![t].P = r.P,
                                    ![t].pc = IF r.err THEN "finished" ELSE "aligned"]
    /\ UNCHANGED <<self, callerVars>>

\* aligned: if not P, else if self.banded, the traceback, and align returns
Aligned(t) ==
    /\ frames[t].pc = "aligned"
    /\ LET f == frames[t]
       IN  frames' = [frames EXCEPT
                         ![t].out = aligned(self.banded, f.seq1, f.seq2, f.score, f.P),
                         ![t].pc = "finished"]
    /\ UNCHANGED <<self, callerVars>>

NextConc ==
    \E t \in Threads :
        \/ WriteBanded(t)
        \/ WriteMax(t)
        \/ ReadBanded(t)
        \/ ReadMax1(t)
        \/ ReadMax2Build(t)
        \/ Aligned(t)

SpecConc == InitConc /\ [][NextConc]_vars

Finished(t) == frames[t].pc = "finished"
Alone(t) == align(frames[t].seq1, frames[t].seq2, frames[t].banded, frames[t].align_length)

\* C6: concurrent calls on one instance are not safe.  A call that ends
\* differently from the same call run alone on a fresh instance has had the
\* other call's write to self.banded or self.MaxCharactersToAlign land
\* between its own write and its later reads, and such a call exists (the
\* witness).
C6_DeviationOnlyByForeignWrite ==
    \A t \in Threads :
        (Finished(t) /\ frames[t].out # Alone(t)) => frames[t].disturbed

\* a call has ended differently from the same call run alone
C6_Witness ==
    \E t \in Threads :
        /\ Finished(t) /\ frames[t].disturbed
        /\ frames[t].out # Alone(t)

====
